---- MODULE Spec2Model ----
(***************************************************************************)
(* Model of backend/config/config.go: the layered configuration resolver.  *)
(*                                                                         *)
(* A Go string is modelled as a sequence of text tokens; concatenation of  *)
(* strings (fmt.Sprintf, +) is concatenation of the token sequences, the   *)
(* empty string is <<>>.  Literals of the source are cut into tokens at    *)
(* the places where a %s verb sits and at the blanks between the           *)
(* key=value words of a connection string.                                 *)
(*                                                                         *)
(* The Config struct is a function from the dotted mapstructure key of a   *)
(* leaf field ("http.port", "mq.nats.server", ...) to the field's value.   *)
(*                                                                         *)
(* The process environment is modelled by what os.Getenv returns for each  *)
(* variable: <<>> for a variable that is unset or set to the empty string  *)
(* (os.Getenv does not distinguish the two, and the code calls nothing     *)
(* else).                                                                  *)
(***************************************************************************)
EXTENDS Integers, Sequences, FiniteSets, TLC

VARIABLES env, file, pc, defaultConfig, viper, before, ret, err, got

vars == <<env, file, pc, defaultConfig, viper, before, ret, err, got>>

\* ------------------------------------------------------------------ bounds
\* at most this many environment variables are set to a non-empty value
MaxEnvSet == 2
\* at most this many keys appear in the configuration file
MaxFileKeys == 1
\* at most this many environment variables are non-empty in the runs that
\* go on to call the getters
MaxGetEnvSet == 1

\* ------------------------------------------------------------------ strings
Contains(s, t) ==
    \E i \in 0..(Len(s) - Len(t)) : SubSeq(s, i + 1, i + Len(t)) = t

\* the value of the host= word of a connection string
DsnHost(d) ==
    IF \E i \in 1..Len(d) : d[i] = "host="
    THEN LET i == CHOOSE i \in 1..Len(d) :
                      d[i] = "host=" /\ \A j \in 1..(i - 1) : d[j] # "host="
             ends == {j \in (i + 1)..Len(d) : d[j] = " "}
             j == IF ends = {} THEN Len(d) + 1
                  ELSE CHOOSE j \in ends : \A m \in ends : j <= m
         IN  SubSeq(d, i + 1, j - 1)
    ELSE <<>>

Digits == <<"0", "1", "2", "3", "4", "5", "6", "7", "8", "9">>

DigitVal(d) == (CHOOSE i \in 1..10 : Digits[i] = d) - 1

IsNumeric(s) ==
    /\ Len(s) > 0
    /\ \A i \in 1..Len(s) : \E j \in 1..10 : Digits[j] = s[i]

RECURSIVE FormatInt(_)
\* strconv.FormatInt(n, 10) for n >= 0
FormatInt(n) ==
    IF n < 10 THEN <<Digits[n + 1]>>
    ELSE FormatInt(n \div 10) \o <<Digits[(n % 10) + 1]>>

RECURSIVE ParseInt(_)
\* strconv.ParseInt of a numeric string
ParseInt(s) ==
    IF Len(s) = 0 THEN 0
    ELSE 10 * ParseInt(SubSeq(s, 1, Len(s) - 1)) + DigitVal(s[Len(s)])

\* ------------------------------------------------------------------ Config
IntKeys == {"log.level", "http.port"}

StringKeys == {"admin_password", "pg.dsn", "mq.type", "mq.nats.server",
               "mq.nats.user", "mq.nats.password", "rag.provider",
               "rag.ct_rag.base_url", "rag.ct_rag.api_key", "redis.addr",
               "redis.password", "auth.type", "auth.jwt.secret",
               "s3.endpoint", "s3.access_key", "s3.secret_key", "caddy_api",
               "subnet_prefix"}

Keys == IntKeys \cup StringKeys

\* the zero value of the Config struct
ZeroConfig == [k \in Keys |-> IF k \in IntKeys THEN 0 ELSE <<>>]

\* ------------------------------------------------------------- environment
HostVars == {"POSTGRES_HOST", "MINIO_HOST", "REDIS_HOST", "NATS_HOST", "RAG_HOST"}

EscapeVars == {"PG_DSN", "MQ_NATS_SERVER", "RAG_CT_RAG_BASE_URL", "REDIS_ADDR",
               "S3_ENDPOINT"}

SecretVars == {"POSTGRES_PASSWORD", "NATS_PASSWORD", "REDIS_PASSWORD",
               "JWT_SECRET", "S3_SECRET_KEY", "ADMIN_PASSWORD"}

EnvVars == HostVars \cup EscapeVars \cup SecretVars \cup {"SUBNET_PREFIX"}

\* prefixes an operator may put in SUBNET_PREFIX
Prefixes == {<<"10.0.0">>, <<"10.9.9">>}

\* the non-empty values a variable may be set to
EnvValues(v) ==
    CASE v = "SUBNET_PREFIX" -> Prefixes
      [] v = "POSTGRES_PASSWORD" -> {<<"envpass">>}
      [] v = "PG_DSN" -> {<<"host=", "ext-pg", " ", "user=ext", " ", "password=", "extpass", " ", "dbname=ext">>}
      [] OTHER -> {<<"env:", v>>}

Getenv(e, v) == e[v]

\* ----------------------------------------------------- default builder
DefaultSubnetPrefix == <<"169.254.15">>

getMinioEndpoint(e) ==
    IF Getenv(e, "MINIO_HOST") # <<>>
    THEN Getenv(e, "MINIO_HOST") \o <<":9000">>
    ELSE <<"panda-wiki-minio", ":9000">>

getPostgresHost(e) ==
    IF Getenv(e, "POSTGRES_HOST") # <<>>
    THEN Getenv(e, "POSTGRES_HOST")
    ELSE <<"panda-wiki-postgres">>

getRedisAddr(e) ==
    IF Getenv(e, "REDIS_HOST") # <<>>
    THEN Getenv(e, "REDIS_HOST") \o <<":6379">>
    ELSE <<"panda-wiki-redis", ":6379">>

\* mutant: the fallback ignores SUBNET_PREFIX
getNatsServer_DefaultPrefix(e) ==
    IF Getenv(e, "NATS_HOST") # <<>>
    THEN <<"nats://">> \o Getenv(e, "NATS_HOST") \o <<":4222">>
    ELSE <<"nats://">> \o DefaultSubnetPrefix \o <<".13:4222">>

getNatsServer(e) ==
    IF Getenv(e, "NATS_HOST") # <<>>
    THEN <<"nats://">> \o Getenv(e, "NATS_HOST") \o <<":4222">>
    ELSE LET SUBNET_PREFIX == IF Getenv(e, "SUBNET_PREFIX") = <<>>
                              THEN DefaultSubnetPrefix
                              ELSE Getenv(e, "SUBNET_PREFIX")
         IN  <<"nats://">> \o SUBNET_PREFIX \o <<".13:4222">>

getRagBaseURL(e) ==
    IF Getenv(e, "RAG_HOST") # <<>>
    THEN <<"http://">> \o Getenv(e, "RAG_HOST") \o <<":8080/api/v1">>
    ELSE LET SUBNET_PREFIX == IF Getenv(e, "SUBNET_PREFIX") = <<>>
                              THEN DefaultSubnetPrefix
                              ELSE Getenv(e, "SUBNET_PREFIX")
         IN  <<"http://">> \o SUBNET_PREFIX \o <<".18:8080/api/v1">>

\* the format "host=%s user=panda-wiki password=%s dbname=panda-wiki ..."
DsnFormat(host, password) ==
    <<"host=">> \o host \o <<" ", "user=panda-wiki", " ", "password=">> \o password
        \o <<" ", "dbname=panda-wiki port=5432 sslmode=disable TimeZone=Asia/Shanghai">>

DefaultPassword == <<"panda-wiki-secret">>

DefaultPort == 8000

DefaultLogLevel == 0

\* the struct literal of NewConfig
DefaultConfig(e) ==
    [k \in Keys |->
        CASE k = "log.level" -> DefaultLogLevel
          [] k = "admin_password" -> <<>>
          [] k = "http.port" -> DefaultPort
          [] k = "pg.dsn" -> DsnFormat(getPostgresHost(e), DefaultPassword)
          [] k = "mq.type" -> <<"nats">>
          [] k = "mq.nats.server" -> getNatsServer(e)
          [] k = "mq.nats.user" -> <<"panda-wiki">>
          [] k = "mq.nats.password" -> <<>>
          [] k = "rag.provider" -> <<"ct">>
          [] k = "rag.ct_rag.base_url" -> getRagBaseURL(e)
          [] k = "rag.ct_rag.api_key" -> <<"sk-1234567890">>
          [] k = "redis.addr" -> getRedisAddr(e)
          [] k = "redis.password" -> <<>>
          [] k = "auth.type" -> <<"jwt">>
          [] k = "auth.jwt.secret" -> <<>>
          [] k = "s3.endpoint" -> getMinioEndpoint(e)
          [] k = "s3.access_key" -> <<"s3panda-wiki">>
          [] k = "s3.secret_key" -> <<>>
          [] k = "caddy_api" -> <<"/app/run/caddy-admin.sock">>
          [] k = "subnet_prefix" -> DefaultSubnetPrefix]


\* ------------------------------------------------------------ config file
\* a YAML scalar: an integer (t = "int", value n) or a string (t = "str", s)
IntScalar(n) == [t |-> "int", n |-> n, s |-> <<>>]

StrScalar(s) == [t |-> "str", n |-> 0, s |-> s]

\* a key of the file that no field of Config is tagged with
ExtraKey == "extra.key"

FileKeys == Keys \cup {ExtraKey}

\* the values the file may give a key
FileValues(k) ==
    CASE k = "http.port" -> {IntScalar(9090), StrScalar(<<"abc">>)}
      [] k = "log.level" -> {StrScalar(<<"7">>)}
      [] k = "admin_password" -> {StrScalar(<<"file:", k>>), IntScalar(123)}
      [] k = "pg.dsn" ->
            {StrScalar(<<"host=", "filehost", " ", "user=fileuser", " ", "password=", "filepass", " ", "dbname=filedb port=6432">>),
             StrScalar(<<"host=", "otherhost", " ", "user=other", " ", "password=", "filepass", " ", "dbname=otherdb port=7432">>)}
      [] k = "subnet_prefix" -> {StrScalar(<<"10.1.1">>)}
      [] k = ExtraKey -> {StrScalar(<<"true">>)}
      [] OTHER -> {StrScalar(<<"file:", k>>)}

\* the states of config.yml in the search path "." , "./config"
FileStatus == {"absent", "unreadable", "malformed", "ok"}

\* mapstructure's weakly typed decoding of a scalar into the field of key k
\* fails for a non-numeric string into an int field
DecodeErr(k, sc) == k \in IntKeys /\ sc.t = "str" /\ ~IsNumeric(sc.s)

Decode(k, sc) ==
    IF k \in IntKeys
    THEN (IF sc.t = "int" THEN sc.n ELSE ParseInt(sc.s))
    ELSE (IF sc.t = "str" THEN sc.s ELSE FormatInt(sc.n))

\* viper.Unmarshal(defaultConfig): decodes the settings onto the struct c
\* mutant: the error of viper.Unmarshal is dropped
UnmarshalErr_Never(settings) == FALSE

UnmarshalErr(settings) ==
    \E k \in (DOMAIN settings) \cap Keys : DecodeErr(k, settings[k])

\* mutant: the decoder zeroes the fields the file does not mention
Unmarshal_Replace(settings, c) ==
    [k \in Keys |->
        IF k \in DOMAIN settings /\ ~DecodeErr(k, settings[k])
        THEN Decode(k, settings[k])
        ELSE ZeroConfig[k]]

Unmarshal(settings, c) ==
    [k \in Keys |->
        IF k \in DOMAIN settings /\ ~DecodeErr(k, settings[k])
        THEN Decode(k, settings[k])
        ELSE c[k]]

\* ------------------------------------------------- environment override
\* mutant: POSTGRES_PASSWORD is not looked at
overridePostgresPassword_Skip(c, e) == c

\* mutant: the password is appended to the DSN the struct already holds
overridePostgresPassword_Append(c, e) ==
    IF Getenv(e, "POSTGRES_PASSWORD") # <<>>
    THEN [c EXCEPT !["pg.dsn"] =
              c["pg.dsn"] \o <<" ", "password=">> \o Getenv(e, "POSTGRES_PASSWORD")]
    ELSE c

\* mutant: the rebuilt DSN keeps the host of the DSN the struct already holds
overridePostgresPassword_KeepHost(c, e) ==
    IF Getenv(e, "POSTGRES_PASSWORD") # <<>>
    THEN [c EXCEPT !["pg.dsn"] =
              DsnFormat(DsnHost(c["pg.dsn"]), Getenv(e, "POSTGRES_PASSWORD"))]
    ELSE c

\* lines 202-204: a non-empty POSTGRES_PASSWORD rebuilds the whole DSN
overridePostgresPassword(c, e) ==
    IF Getenv(e, "POSTGRES_PASSWORD") # <<>>
    THEN [c EXCEPT !["pg.dsn"] =
              DsnFormat(getPostgresHost(e), Getenv(e, "POSTGRES_PASSWORD"))]
    ELSE c

\* mutant: the test for the empty string is missing
SetIfEnv_Always(c, e, v, key) == [c EXCEPT ![key] = Getenv(e, v)]

\* if env := os.Getenv(v); env != "" { c.<field of key> = env }
SetIfEnv(c, e, v, key) ==
    IF Getenv(e, v) # <<>> THEN [c EXCEPT ![key] = Getenv(e, v)] ELSE c

\* lines 205-222: the credentials, the admin password and the prefix
overrideSecrets(c, e) ==
    LET c2 == SetIfEnv(c, e, "NATS_PASSWORD", "mq.nats.password")
        c3 == SetIfEnv(c2, e, "REDIS_PASSWORD", "redis.password")
        c4 == SetIfEnv(c3, e, "JWT_SECRET", "auth.jwt.secret")
        c5 == SetIfEnv(c4, e, "S3_SECRET_KEY", "s3.secret_key")
        c6 == SetIfEnv(c5, e, "ADMIN_PASSWORD", "admin_password")
        c7 == SetIfEnv(c6, e, "SUBNET_PREFIX", "subnet_prefix")
    IN  c7

\* lines 223-242: the full-value variables
overrideEscapeHatches(c, e) ==
    LET c8 == SetIfEnv(c, e, "PG_DSN", "pg.dsn")
        c9 == SetIfEnv(c8, e, "MQ_NATS_SERVER", "mq.nats.server")
        c10 == SetIfEnv(c9, e, "RAG_CT_RAG_BASE_URL", "rag.ct_rag.base_url")
        c11 == SetIfEnv(c10, e, "REDIS_ADDR", "redis.addr")
        c12 == SetIfEnv(c11, e, "S3_ENDPOINT", "s3.endpoint")
    IN  c12

\* mutant: the full-value variables are applied before POSTGRES_PASSWORD
overrideWithEnv_EscapeFirst(c, e) ==
    overrideSecrets(overridePostgresPassword(overrideEscapeHatches(c, e), e), e)

overrideWithEnv(c, e) ==
    overrideEscapeHatches(overrideSecrets(overridePostgresPassword(c, e), e), e)

\* ---------------------------------------------------- generic accessor
\* cast.CastToString / cast.CastToInt / cast.CastToBool of a stored scalar
CastToString(sc) == IF sc.t = "str" THEN sc.s ELSE FormatInt(sc.n)

CastToInt(sc) ==
    IF sc.t = "int" THEN sc.n
    ELSE IF IsNumeric(sc.s) THEN ParseInt(sc.s) ELSE 0

TrueStrings == {<<"1">>, <<"t">>, <<"T">>, <<"TRUE">>, <<"true">>, <<"True">>}

CastToBool(sc) == IF sc.t = "int" THEN sc.n # 0 ELSE sc.s \in TrueStrings

\* viper.GetString(key), viper.GetInt(key), viper.GetBool(key) on the
\* process-wide store vp
\* mutant: a key missing from the store falls back to the environment
\* variable of the same name (viper.AutomaticEnv)
GetString_AutomaticEnv(vp, key) ==
    IF key \in DOMAIN vp THEN CastToString(vp[key])
    ELSE IF key = "subnet_prefix" THEN env["SUBNET_PREFIX"] ELSE <<>>

GetString(vp, key) == IF key \in DOMAIN vp THEN CastToString(vp[key]) ELSE <<>>

GetInt(vp, key) == IF key \in DOMAIN vp THEN CastToInt(vp[key]) ELSE 0

GetBool(vp, key) == IF key \in DOMAIN vp THEN CastToBool(vp[key]) ELSE FALSE

\* ------------------------------------------------------------ the inputs
RECURSIVE SubsetsUpTo(_, _)
SubsetsUpTo(S, n) ==
    IF n = 0 THEN {{}}
    ELSE LET P == SubsetsUpTo(S, n - 1)
         IN  P \cup {p \cup {x} : p \in P, x \in S}

EmptySettings == [k \in {} |-> IntScalar(0)]

RECURSIVE EnvAssign(_)
\* the environments in which exactly the variables of S are non-empty
EnvAssign(S) ==
    IF S = {} THEN {[v \in EnvVars |-> <<>>]}
    ELSE LET x == CHOOSE x \in S : TRUE
         IN  {[e EXCEPT ![x] = val] : e \in EnvAssign(S \ {x}), val \in EnvValues(x)}

\* every environment with at most MaxEnvSet non-empty variables
Environments == UNION {EnvAssign(S) : S \in SubsetsUpTo(EnvVars, MaxEnvSet)}

\* every environment with at most MaxGetEnvSet non-empty variables
GetEnvironments == UNION {EnvAssign(S) : S \in SubsetsUpTo(EnvVars, MaxGetEnvSet)}

RECURSIVE FileAssign(_)
\* the parsed file contents whose keys are exactly S
FileAssign(S) ==
    IF S = {} THEN {EmptySettings}
    ELSE LET x == CHOOSE x \in S : TRUE
         IN  {[k \in S |-> IF k = x THEN val ELSE f[k]] :
                 f \in FileAssign(S \ {x}), val \in FileValues(x)}

\* every parsed file content with at most MaxFileKeys keys
FileContents == UNION {FileAssign(S) : S \in SubsetsUpTo(FileKeys, MaxFileKeys)}

Files ==
    {[status |-> st, content |-> EmptySettings] : st \in FileStatus \ {"ok"}}
        \cup {[status |-> "ok", content |-> f] : f \in FileContents}

NoGot == [key |-> "", kind |-> "", str |-> <<>>, int |-> 0, bool |-> FALSE]

\* ------------------------------------------------------------ the machine
InitWith(envs) ==
    /\ env \in envs
    /\ file \in Files
    /\ pc = "start"
    /\ defaultConfig = ZeroConfig
    /\ viper = EmptySettings
    /\ before = ZeroConfig
    /\ ret = <<>>
    /\ err = "nil"
    /\ got = NoGot

Init == InitWith(Environments)

InitGet == InitWith(GetEnvironments)

\* NewConfig, lines 129-174: the default struct literal
BuildDefaults ==
    /\ pc = "start"
    /\ defaultConfig' = DefaultConfig(env)
    /\ pc' = "read"
    /\ UNCHANGED <<env, file, viper, before, ret, err, got>>

\* NewConfig, lines 176-187: viper.ReadInConfig and the error test
ReadInConfig ==
    /\ pc = "read"
    /\ IF file.status = "absent"
       THEN \* ConfigFileNotFoundError is swallowed
            /\ viper' = EmptySettings
            /\ pc' = "unmarshal"
            /\ UNCHANGED <<ret, err>>
       ELSE IF file.status \in {"unreadable", "malformed"}
       THEN /\ viper' = EmptySettings
            /\ ret' = <<>>
            /\ err' = file.status
            /\ pc' = "done"
       ELSE /\ viper' = file.content
            /\ pc' = "unmarshal"
            /\ UNCHANGED <<ret, err>>
    /\ UNCHANGED <<env, file, defaultConfig, before, got>>

\* NewConfig, lines 189-192: viper.Unmarshal(defaultConfig)
UnmarshalStep ==
    /\ pc = "unmarshal"
    /\ defaultConfig' = Unmarshal(viper, defaultConfig)
    /\ IF UnmarshalErr(viper)
       THEN /\ ret' = <<>>
            /\ err' = "decode"
            /\ pc' = "done"
       ELSE /\ pc' = "env"
            /\ UNCHANGED <<ret, err>>
    /\ UNCHANGED <<env, file, viper, before, got>>

\* NewConfig, lines 194-197: overrideWithEnv(defaultConfig); return
OverrideStep ==
    /\ pc = "env"
    /\ before' = defaultConfig
    /\ defaultConfig' = overrideWithEnv(defaultConfig, env)
    /\ ret' = <<defaultConfig'>>
    /\ err' = "nil"
    /\ pc' = "done"
    /\ UNCHANGED <<env, file, viper, got>>

\* a second call of overrideWithEnv on the returned Config
ReapplyEnv ==
    /\ pc = "done"
    /\ Len(ret) = 1
    /\ before' = ret[1]
    /\ defaultConfig' = overrideWithEnv(ret[1], env)
    /\ ret' = <<defaultConfig'>>
    /\ pc' = "reapplied"
    /\ UNCHANGED <<env, file, viper, err, got>>

\* calls of the typed getters after NewConfig has returned
CallGetString(key) ==
    /\ pc = "done"
    /\ got' = [NoGot EXCEPT !.key = key, !.kind = "string", !.str = GetString(viper, key)]
    /\ pc' = "got"
    /\ UNCHANGED <<env, file, defaultConfig, viper, before, ret, err>>

CallGetInt(key) ==
    /\ pc = "done"
    /\ got' = [NoGot EXCEPT !.key = key, !.kind = "int", !.int = GetInt(viper, key)]
    /\ pc' = "got"
    /\ UNCHANGED <<env, file, defaultConfig, viper, before, ret, err>>

CallGetBool(key) ==
    /\ pc = "done"
    /\ got' = [NoGot EXCEPT !.key = key, !.kind = "bool", !.bool = GetBool(viper, key)]
    /\ pc' = "got"
    /\ UNCHANGED <<env, file, defaultConfig, viper, before, ret, err>>

\* NewConfig, and a second pass of overrideWithEnv over its result
Next ==
    \/ BuildDefaults
    \/ ReadInConfig
    \/ UnmarshalStep
    \/ OverrideStep
    \/ ReapplyEnv

Spec == Init /\ [][Next]_vars

\* NewConfig, and a getter call after it
NextGet ==
    \/ BuildDefaults
    \/ ReadInConfig
    \/ UnmarshalStep
    \/ OverrideStep
    \/ \E key \in FileKeys : CallGetString(key)
    \/ \E key \in FileKeys : CallGetInt(key)
    \/ \E key \in FileKeys : CallGetBool(key)

SpecGet == InitGet /\ [][NextGet]_vars

\* what NewConfig returns for a readable, well-typed file content f (or no
\* file, f = EmptySettings) in environment e
Resolve(f, e) == overrideWithEnv(Unmarshal(f, DefaultConfig(e)), e)


\* ======================================================== the properties
\* NewConfig has returned a Config
Returned == pc = "done" /\ Len(ret) = 1 /\ err = "nil"

FileHas(key) == file.status = "ok" /\ key \in DOMAIN file.content

Unset(vs) == \A v \in vs : env[v] = <<>>

\* C1: precedence for the database password is defaults < file < environment.
\* With PG_DSN unset: a file DSN with password "filepass" and
\* POSTGRES_PASSWORD = "envpass" resolve to a DSN containing "envpass"; the same
\* file with POSTGRES_PASSWORD empty resolves to a DSN containing "filepass";
\* with neither a file DSN nor POSTGRES_PASSWORD the DSN contains the default
\* password.
C1_PasswordPrecedence ==
    (Returned /\ env["PG_DSN"] = <<>>) =>
        /\ (FileHas("pg.dsn") /\ env["POSTGRES_PASSWORD"] = <<"envpass">>)
              => Contains(ret[1]["pg.dsn"], <<"password=", "envpass">>)
        /\ (FileHas("pg.dsn") /\ env["POSTGRES_PASSWORD"] = <<>>)
              => Contains(ret[1]["pg.dsn"], <<"password=", "filepass">>)
        /\ (~FileHas("pg.dsn") /\ env["POSTGRES_PASSWORD"] = <<>>)
              => Contains(ret[1]["pg.dsn"], <<"password=", "panda-wiki-secret">>)

C1_Witness ==
    /\ Returned
    /\ FileHas("pg.dsn")
    /\ Contains(file.content["pg.dsn"].s, <<"filepass">>)
    /\ env["POSTGRES_PASSWORD"] = <<"envpass">>
    /\ env["PG_DSN"] = <<>>
    /\ Contains(ret[1]["pg.dsn"], <<"envpass">>)

\* the field a full-value variable sets
EscapeField(v) ==
    CASE v = "PG_DSN" -> "pg.dsn"
      [] v = "MQ_NATS_SERVER" -> "mq.nats.server"
      [] v = "RAG_CT_RAG_BASE_URL" -> "rag.ct_rag.base_url"
      [] v = "REDIS_ADDR" -> "redis.addr"
      [] v = "S3_ENDPOINT" -> "s3.endpoint"

\* C2: a full-value environment variable that is set and non-empty is the
\* value of its field in the Config NewConfig returns, whatever the file, the
\* prefix, the host variables and POSTGRES_PASSWORD are.
C2_EscapeHatch ==
    Returned =>
        \A v \in EscapeVars :
            env[v] # <<>> => ret[1][EscapeField(v)] = env[v]

C2_Witness ==
    /\ Returned
    /\ env["PG_DSN"] # <<>>
    /\ env["POSTGRES_PASSWORD"] # <<>>
    /\ ret[1]["pg.dsn"] = env["PG_DSN"]

\* the case of C3: no file, no host variable, no full-value variable, and a
\* prefix in SUBNET_PREFIX
C3_Case ==
    /\ Returned
    /\ file.status = "absent"
    /\ Unset(HostVars \cup EscapeVars)
    /\ env["SUBNET_PREFIX"] # <<>>

\* C3 as stated: in that case every derivable address (cache address, database
\* host, broker address, retrieval base URL, object-store endpoint) is a
\* template with the prefix substituted into it.
C3_Original ==
    C3_Case =>
        LET p == env["SUBNET_PREFIX"]
            c == ret[1]
        IN  /\ Contains(c["mq.nats.server"], p)
            /\ Contains(c["rag.ct_rag.base_url"], p)
            /\ Contains(c["redis.addr"], p)
            /\ Contains(DsnHost(c["pg.dsn"]), p)
            /\ Contains(c["s3.endpoint"], p)

\* C3 amended: in that case the broker address is nats://<p>.13:4222 and the
\* retrieval base URL is http://<p>.18:8080/api/v1, and both differ for a
\* different prefix; the cache address, the database host and the object-store
\* endpoint are the fixed names panda-wiki-redis:6379, panda-wiki-postgres and
\* panda-wiki-minio:9000, the same for every prefix.
C3_Derivation ==
    C3_Case =>
        LET p == env["SUBNET_PREFIX"]
            c == ret[1]
        IN  /\ c["mq.nats.server"] = <<"nats://">> \o p \o <<".13:4222">>
            /\ c["rag.ct_rag.base_url"] = <<"http://">> \o p \o <<".18:8080/api/v1">>
            /\ c["redis.addr"] = <<"panda-wiki-redis", ":6379">>
            /\ DsnHost(c["pg.dsn"]) = <<"panda-wiki-postgres">>
            /\ c["s3.endpoint"] = <<"panda-wiki-minio", ":9000">>
            /\ \A q \in Prefixes \ {p} :
                  LET d == Resolve(EmptySettings, [env EXCEPT !["SUBNET_PREFIX"] = q])
                  IN  /\ d["mq.nats.server"] # c["mq.nats.server"]
                      /\ d["rag.ct_rag.base_url"] # c["rag.ct_rag.base_url"]
                      /\ d["redis.addr"] = c["redis.addr"]
                      /\ d["pg.dsn"] = c["pg.dsn"]
                      /\ d["s3.endpoint"] = c["s3.endpoint"]

C3_Witness ==
    /\ C3_Case
    /\ env["SUBNET_PREFIX"] = <<"10.0.0">>
    /\ ret[1]["mq.nats.server"] = <<"nats://", "10.0.0", ".13:4222">>
    /\ ret[1]["redis.addr"] = <<"panda-wiki-redis", ":6379">>

\* the variables the override pass reads
OverrideVars == SecretVars \cup EscapeVars \cup {"SUBNET_PREFIX"}

\* C4: with no override variable set, a field whose key the file mentions has
\* the file's value and every other field has the value of the default builder.
C4_PartialOverlay ==
    (Returned /\ Unset(OverrideVars)) =>
        \A k \in Keys :
            IF FileHas(k)
            THEN ret[1][k] = Decode(k, file.content[k])
            ELSE ret[1][k] = DefaultConfig(env)[k]

C4_Witness ==
    /\ Returned
    /\ Unset(EnvVars)
    /\ file.status = "ok"
    /\ DOMAIN file.content = {"http.port"}
    /\ ret[1]["http.port"] = 9090
    /\ ret[1]["pg.dsn"] = DsnFormat(<<"panda-wiki-postgres">>, <<"panda-wiki-secret">>)

\* the file gives a field of integer type a string that is no number
TypeMismatch ==
    /\ file.status = "ok"
    /\ \E k \in (DOMAIN file.content) \cap IntKeys :
          file.content[k].t = "str" /\ ~IsNumeric(file.content[k].s)

\* C5: without a file NewConfig returns the defaults with the environment
\* overrides and a nil error; with an unreadable, malformed or type-mismatched
\* file it returns an error and a nil Config.
C5_MissingVsMalformed ==
    pc = "done" =>
        /\ file.status = "absent" =>
              /\ err = "nil"
              /\ Len(ret) = 1
              /\ ret[1] = overrideWithEnv(DefaultConfig(env), env)
        /\ (file.status \in {"unreadable", "malformed"} \/ TypeMismatch) =>
              /\ err # "nil"
              /\ ret = <<>>

C5_Witness ==
    /\ pc = "done"
    /\ TypeMismatch
    /\ err = "decode"
    /\ ret = <<>>

\* C6: applying overrideWithEnv a second time, in the same environment, to the
\* Config it produced leaves every field as the first application left it.
C6_Idempotent ==
    pc = "reapplied" => ret[1] = before

C6_Witness ==
    /\ pc = "reapplied"
    /\ FileHas("pg.dsn")
    /\ env["POSTGRES_PASSWORD"] # <<>>
    /\ ret[1] = before
    /\ ret[1]["pg.dsn"] # file.content["pg.dsn"].s

\* C7: with no host variable and no full-value variable set, the broker
\* address and the retrieval base URL (when the file does not give them) are
\* built from the prefix the returned SubnetPrefix field holds.
C7_PrefixConsistency ==
    (Returned /\ Unset(HostVars \cup EscapeVars)) =>
        LET c == ret[1]
        IN  /\ ~FileHas("mq.nats.server") =>
                  c["mq.nats.server"] = <<"nats://">> \o c["subnet_prefix"] \o <<".13:4222">>
            /\ ~FileHas("rag.ct_rag.base_url") =>
                  c["rag.ct_rag.base_url"] =
                      <<"http://">> \o c["subnet_prefix"] \o <<".18:8080/api/v1">>

\* what a getter call returned, by its kind
GotValue == IF got.kind = "string" THEN got.str
            ELSE IF got.kind = "int" THEN got.int ELSE got.bool

\* C8 as stated: a getter returns the file's value for a key of the file and
\* otherwise the compiled-in default of the key (http.port gives the default
\* port without a file).
C8_Original ==
    (pc = "got" /\ ~FileHas(got.key)) =>
        /\ (got.kind = "int" /\ got.key \in IntKeys)
              => got.int = DefaultConfig(env)[got.key]
        /\ (got.kind = "string" /\ got.key \in StringKeys)
              => got.str = DefaultConfig(env)[got.key]

\* C8 amended: a getter returns the file's value, coerced to the requested
\* type, when the parsed file contains the key, and otherwise the zero value
\* of the type, also for a key that has a compiled-in default; the result is
\* the same in every environment.
C8_FileLayerOnly ==
    pc = "got" =>
        IF FileHas(got.key)
        THEN LET sc == file.content[got.key]
             IN  /\ got.kind = "string" =>
                       got.str = (IF sc.t = "str" THEN sc.s ELSE FormatInt(sc.n))
                 /\ got.kind = "int" =>
                       got.int = (IF sc.t = "int" THEN sc.n
                                  ELSE IF IsNumeric(sc.s) THEN ParseInt(sc.s) ELSE 0)
                 /\ got.kind = "bool" =>
                       got.bool = (IF sc.t = "int" THEN sc.n # 0 ELSE sc.s \in TrueStrings)
        ELSE /\ got.str = <<>>
             /\ got.int = 0
             /\ got.bool = FALSE

C8_Witness ==
    /\ pc = "got"
    /\ err = "nil"
    /\ got.key = "http.port"
    /\ got.kind = "int"
    /\ ~FileHas("http.port")
    /\ got.int = 0
    /\ ret[1]["http.port"] = 8000
    /\ env["SUBNET_PREFIX"] # <<>>

\* the environment variables on which the override pass makes a field depend
AllowList(k) ==
    CASE k = "pg.dsn" -> {"POSTGRES_PASSWORD", "PG_DSN"}
      [] k = "mq.nats.password" -> {"NATS_PASSWORD"}
      [] k = "redis.password" -> {"REDIS_PASSWORD"}
      [] k = "auth.jwt.secret" -> {"JWT_SECRET"}
      [] k = "s3.secret_key" -> {"S3_SECRET_KEY"}
      [] k = "admin_password" -> {"ADMIN_PASSWORD"}
      [] k = "subnet_prefix" -> {"SUBNET_PREFIX"}
      [] k = "mq.nats.server" -> {"MQ_NATS_SERVER"}
      [] k = "rag.ct_rag.base_url" -> {"RAG_CT_RAG_BASE_URL"}
      [] k = "redis.addr" -> {"REDIS_ADDR"}
      [] k = "s3.endpoint" -> {"S3_ENDPOINT"}
      [] OTHER -> {}

\* C9: overrideWithEnv changes a field only if the field is on the allow-list
\* and one of its variables is non-empty; the fields off the list, and the
\* fields whose variables are all unset or empty, keep the value they had.
C9_EnvFrame ==
    (pc \in {"done", "reapplied"} /\ Len(ret) = 1) =>
        \A k \in Keys :
            ret[1][k] # before[k] => \E v \in AllowList(k) : env[v] # <<>>

C9_Witness ==
    /\ Returned
    /\ FileHas("mq.nats.server")
    /\ env["MQ_NATS_SERVER"] = <<>>
    /\ env["NATS_PASSWORD"] # <<>>
    /\ ret[1]["mq.nats.server"] = file.content["mq.nats.server"].s
    /\ ret[1]["mq.nats.password"] # before["mq.nats.password"]
    /\ ret[1]["mq.nats.user"] = before["mq.nats.user"]

\* the file content f with key k set to the scalar sc
WithKey(f, k, sc) ==
    [x \in (DOMAIN f) \cup {k} |-> IF x = k THEN sc ELSE f[x]]

\* C10: with POSTGRES_PASSWORD non-empty and PG_DSN unset the returned DSN is
\* the fixed template filled with POSTGRES_HOST (or the default host) and the
\* password, and NewConfig returns the same DSN for every pg.dsn of the file.
C10_DsnIgnoresFile ==
    (Returned /\ env["POSTGRES_PASSWORD"] # <<>> /\ env["PG_DSN"] = <<>>) =>
        /\ ret[1]["pg.dsn"] =
              <<"host=">>
                 \o (IF env["POSTGRES_HOST"] # <<>> THEN env["POSTGRES_HOST"]
                     ELSE <<"panda-wiki-postgres">>)
                 \o <<" ", "user=panda-wiki", " ", "password=">>
                 \o env["POSTGRES_PASSWORD"]
                 \o <<" ", "dbname=panda-wiki port=5432 sslmode=disable TimeZone=Asia/Shanghai">>
        /\ \A sc \in FileValues("pg.dsn") :
              Resolve(WithKey(file.content, "pg.dsn", sc), env)["pg.dsn"] = ret[1]["pg.dsn"]

C10_Witness ==
    /\ Returned
    /\ FileHas("pg.dsn")
    /\ DsnHost(file.content["pg.dsn"].s) = <<"filehost">>
    /\ env["POSTGRES_PASSWORD"] # <<>>
    /\ env["PG_DSN"] = <<>>
    /\ ~Contains(ret[1]["pg.dsn"], <<"filehost">>)

====
